---- MODULE Spec2Model ----
(***************************************************************************)
(* Model of the Creditra credit contract                                   *)
(* (contracts/credit/src/lib.rs).                                          *)
(*                                                                         *)
(* The contract is a set of entry points over the host's persistent        *)
(* key-value storage.  Every invocation is one host transaction: it runs   *)
(* to completion or panics, and a panic leaves storage and events          *)
(* untouched.  One action of the model is one invocation.                  *)
(*                                                                         *)
(* Two kinds of storage key occur in the source:                           *)
(*   - the bare borrower Address          (open, suspend, close, default,  *)
(*                                         get_credit_line)                *)
(*   - the tuple (Symbol "CREDIT_LINE", borrower)   (draw, repay)          *)
(* They are different keys of the same persistent map, and the model keeps *)
(* them apart exactly as the host does.                                    *)
(***************************************************************************)
EXTENDS Integers, Sequences, FiniteSets, TLC

(***************************************************************************)
(* Bounds of the model.                                                    *)
(***************************************************************************)
\* largest credit_limit argument tried; the smallest is -1 (i128 is signed)
MaxLimit == 1
\* largest amount argument tried; the smallest is -1
MaxAmount == 1
\* width of the signed integer standing for i128 (scaled down)
I128Bits == 6

Borrowers == {"b1", "b2"}
Admins == {"admin"}
LimitValues == (0 - 1)..MaxLimit
AmountValues == (0 - 1)..MaxAmount
\* the callers tried for an invocation on borrower b: the admin and b itself
CallersOf(b) == Admins \cup {b}
\* the u32 arguments (interest_rate_bps, risk_score): pairs the tests pass
RiskParams == {<<300, 70>>, <<400, 80>>}

(***************************************************************************)
(* Types of the contract.                                                  *)
(***************************************************************************)
CreditStatus == {"Active", "Suspended", "Defaulted", "Closed"}

\* CreditError as u32 (the contract error code)
CreditError ==
  [CreditLineNotFound |-> 1, InvalidCreditStatus |-> 2, InvalidAmount |-> 3,
   InsufficientUtilization |-> 4, Unauthorized |-> 5]

\* Option<T>
None == <<>>
Some(x) == <<x>>
IsSome(o) == o # None
Unwrap(o) == o[1]

CreditLineData ==
  [borrower : Borrowers, credit_limit : Int, utilized_amount : Int,
   interest_rate_bps : Nat, risk_score : Nat, status : CreditStatus]

(***************************************************************************)
(* Storage keys.                                                           *)
(***************************************************************************)
\* AddressKey with a slip: one slot for all borrowers
AddressKey_shared(borrower) == <<"Address", "b1">>
\* the key `&borrower`
AddressKey(borrower) == <<"Address", borrower>>
\* the key `(Symbol::new(&env, "CREDIT_LINE"), borrower.clone())`
CreditLineKey(borrower) == <<"CREDIT_LINE", borrower>>
Keys == {"Address", "CREDIT_LINE"} \X Borrowers

(***************************************************************************)
(* i128 checked arithmetic.                                                *)
(***************************************************************************)
I128_MAX == 2^(I128Bits - 1) - 1
I128_MIN == 0 - 2^(I128Bits - 1)
checked_sub(a, b) ==
  IF a - b >= I128_MIN /\ a - b <= I128_MAX THEN Some(a - b) ELSE None
checked_add(a, b) ==
  IF a + b >= I128_MIN /\ a + b <= I128_MAX THEN Some(a + b) ELSE None

(***************************************************************************)
(* Outcome of one invocation: result is "Ok", the name of the CreditError  *)
(* the call aborted with, or the message of the panic.  An aborted call    *)
(* leaves storage as it was and publishes nothing.                         *)
(***************************************************************************)
PanicNotFound == "panic: Credit line not found"
PanicSub == "panic: Credit limit should be >= utilized amount"
PanicAdd == "panic: Utilized amount should not overflow credit limit"
PanicUnderflow == "panic: Underflow should not occur with proper validation"

Abort(p, err) == [result |-> err, persistent |-> p, events |-> <<>>, ret |-> None]
Commit(p, ev) == [result |-> "Ok", persistent |-> p, events |-> ev, ret |-> None]

\* payload of the lifecycle events
CreditLineEvent(event_type, borrower, status, credit_limit, interest_rate_bps, risk_score) ==
  [topics |-> <<"credit", event_type>>,
   data |-> [event_type |-> event_type, borrower |-> borrower, status |-> status,
             credit_limit |-> credit_limit, interest_rate_bps |-> interest_rate_bps,
             risk_score |-> risk_score]]

(***************************************************************************)
(* The entry points, as functions of the persistent storage p.             *)
(***************************************************************************)
\* open_credit_line with a slip: a line that exists keeps its status
open_credit_line_keeps_status(p, borrower, credit_limit, interest_rate_bps, risk_score) ==
  LET credit_line == [borrower |-> borrower,
                      credit_limit |-> credit_limit,
                      utilized_amount |-> 0,
                      interest_rate_bps |-> interest_rate_bps,
                      risk_score |-> risk_score,
                      status |-> IF p[AddressKey(borrower)] = None THEN "Active"
                                 ELSE Unwrap(p[AddressKey(borrower)]).status]
  IN Commit([p EXCEPT ![AddressKey(borrower)] = Some(credit_line)],
            <<CreditLineEvent("opened", borrower, "Active", credit_limit,
                              interest_rate_bps, risk_score)>>)

open_credit_line(p, borrower, credit_limit, interest_rate_bps, risk_score) ==
  LET credit_line == [borrower |-> borrower,
                      credit_limit |-> credit_limit,
                      utilized_amount |-> 0,
                      interest_rate_bps |-> interest_rate_bps,
                      risk_score |-> risk_score,
                      status |-> "Active"]
  IN Commit([p EXCEPT ![AddressKey(borrower)] = Some(credit_line)],
            <<CreditLineEvent("opened", borrower, "Active", credit_limit,
                              interest_rate_bps, risk_score)>>)

\* draw_credit with a slip: a missing record is created before the call aborts
draw_credit_creates_on_miss(p, borrower, amount) ==
  IF amount <= 0 THEN Abort(p, "InvalidAmount")
  ELSE
  LET credit_key == CreditLineKey(borrower) IN
  IF p[credit_key] = None
  THEN [Abort(p, "CreditLineNotFound") EXCEPT
          !.persistent = [p EXCEPT ![credit_key] =
             Some([borrower |-> borrower, credit_limit |-> 0, utilized_amount |-> 0,
                   interest_rate_bps |-> 0, risk_score |-> 0, status |-> "Active"])]]
  ELSE
  LET credit_data == Unwrap(p[credit_key]) IN
  IF credit_data.status # "Active" THEN Abort(p, "InvalidCreditStatus")
  ELSE
  LET available_credit == checked_sub(credit_data.credit_limit, credit_data.utilized_amount) IN
  IF available_credit = None THEN Abort(p, PanicSub)
  ELSE IF amount > Unwrap(available_credit) THEN Abort(p, "InsufficientUtilization")
  ELSE
  LET utilized == checked_add(credit_data.utilized_amount, amount) IN
  IF utilized = None THEN Abort(p, PanicAdd)
  ELSE
  LET new_data == [credit_data EXCEPT !.utilized_amount = Unwrap(utilized)] IN
  Commit([p EXCEPT ![credit_key] = Some(new_data)],
         <<[topics |-> <<"draw", borrower>>,
            data |-> <<amount, new_data.utilized_amount>>]>>)

draw_credit(p, borrower, amount) ==
  IF amount <= 0 THEN Abort(p, "InvalidAmount")
  ELSE
  LET credit_key == CreditLineKey(borrower) IN
  IF p[credit_key] = None THEN Abort(p, "CreditLineNotFound")
  ELSE
  LET credit_data == Unwrap(p[credit_key]) IN
  IF credit_data.status # "Active" THEN Abort(p, "InvalidCreditStatus")
  ELSE
  LET available_credit == checked_sub(credit_data.credit_limit, credit_data.utilized_amount) IN
  IF available_credit = None THEN Abort(p, PanicSub)
  ELSE IF amount > Unwrap(available_credit) THEN Abort(p, "InsufficientUtilization")
  ELSE
  LET utilized == checked_add(credit_data.utilized_amount, amount) IN
  IF utilized = None THEN Abort(p, PanicAdd)
  ELSE
  LET new_data == [credit_data EXCEPT !.utilized_amount = Unwrap(utilized)] IN
  Commit([p EXCEPT ![credit_key] = Some(new_data)],
         <<[topics |-> <<"draw", borrower>>,
            data |-> <<amount, new_data.utilized_amount>>]>>)

\* repay_credit with a slip: only a negative amount is rejected
repay_credit_accepts_zero(p, borrower, amount) ==
  IF amount < 0 THEN Abort(p, "InvalidAmount")
  ELSE
  LET credit_key == CreditLineKey(borrower) IN
  IF p[credit_key] = None THEN Abort(p, "CreditLineNotFound")
  ELSE
  LET credit_data == Unwrap(p[credit_key]) IN
  IF credit_data.status # "Active" /\ credit_data.status # "Suspended"
  THEN Abort(p, "InvalidCreditStatus")
  ELSE
  LET amount_to_apply == IF amount > credit_data.utilized_amount
                         THEN credit_data.utilized_amount
                         ELSE amount
      utilized == checked_sub(credit_data.utilized_amount, amount_to_apply)
  IN
  IF utilized = None THEN Abort(p, PanicUnderflow)
  ELSE
  LET new_data == [credit_data EXCEPT !.utilized_amount = Unwrap(utilized)] IN
  Commit([p EXCEPT ![credit_key] = Some(new_data)],
         <<[topics |-> <<"repayment", borrower>>,
            data |-> <<amount_to_apply, new_data.utilized_amount>>]>>)

repay_credit(p, borrower, amount) ==
  IF amount <= 0 THEN Abort(p, "InvalidAmount")
  ELSE
  LET credit_key == CreditLineKey(borrower) IN
  IF p[credit_key] = None THEN Abort(p, "CreditLineNotFound")
  ELSE
  LET credit_data == Unwrap(p[credit_key]) IN
  IF credit_data.status # "Active" /\ credit_data.status # "Suspended"
  THEN Abort(p, "InvalidCreditStatus")
  ELSE
  LET amount_to_apply == IF amount > credit_data.utilized_amount
                         THEN credit_data.utilized_amount
                         ELSE amount
      utilized == checked_sub(credit_data.utilized_amount, amount_to_apply)
  IN
  IF utilized = None THEN Abort(p, PanicUnderflow)
  ELSE
  LET new_data == [credit_data EXCEPT !.utilized_amount = Unwrap(utilized)] IN
  Commit([p EXCEPT ![credit_key] = Some(new_data)],
         <<[topics |-> <<"repayment", borrower>>,
            data |-> <<amount_to_apply, new_data.utilized_amount>>]>>)

\* the body is a TODO in the source: nothing is read, nothing is written
update_risk_parameters(p, borrower, credit_limit, interest_rate_bps, risk_score) ==
  Commit(p, <<>>)

\* set_status with a slip: a Closed or Defaulted line is left as it is
set_status_guards_terminal(p, borrower, status, event_type) ==
  IF p[AddressKey(borrower)] = None THEN Abort(p, PanicNotFound)
  ELSE IF Unwrap(p[AddressKey(borrower)]).status \in {"Closed", "Defaulted"}
  THEN Abort(p, "InvalidCreditStatus")
  ELSE
  LET credit_line == [Unwrap(p[AddressKey(borrower)]) EXCEPT !.status = status] IN
  Commit([p EXCEPT ![AddressKey(borrower)] = Some(credit_line)],
         <<CreditLineEvent(event_type, borrower, status, credit_line.credit_limit,
                           credit_line.interest_rate_bps, credit_line.risk_score)>>)

\* suspend, close and default differ only in the status and the event name
set_status(p, borrower, status, event_type) ==
  IF p[AddressKey(borrower)] = None THEN Abort(p, PanicNotFound)
  ELSE
  LET credit_line == [Unwrap(p[AddressKey(borrower)]) EXCEPT !.status = status] IN
  Commit([p EXCEPT ![AddressKey(borrower)] = Some(credit_line)],
         <<CreditLineEvent(event_type, borrower, status, credit_line.credit_limit,
                           credit_line.interest_rate_bps, credit_line.risk_score)>>)

suspend_credit_line(p, borrower) == set_status(p, borrower, "Suspended", "suspend")

\* close_credit_line with a slip: the record is removed instead of marked
close_credit_line_removes(p, borrower) ==
  IF p[AddressKey(borrower)] = None THEN Abort(p, PanicNotFound)
  ELSE
  LET credit_line == [Unwrap(p[AddressKey(borrower)]) EXCEPT !.status = "Closed"] IN
  Commit([p EXCEPT ![AddressKey(borrower)] = None],
         <<CreditLineEvent("closed", borrower, "Closed", credit_line.credit_limit,
                           credit_line.interest_rate_bps, credit_line.risk_score)>>)

close_credit_line(p, borrower) == set_status(p, borrower, "Closed", "closed")

default_credit_line(p, borrower) == set_status(p, borrower, "Defaulted", "default")

get_credit_line(p, borrower) == p[AddressKey(borrower)]

(***************************************************************************)
(* State.                                                                  *)
(***************************************************************************)
VARIABLES
  admin,           \* instance storage, key "admin"
  persistent,      \* persistent storage: key -> Option<CreditLineData>
  events,          \* events published by the last invocation
  last,            \* the last invocation: entry point, arguments, outcome
  pre_persistent,  \* persistent storage as the last invocation found it
  opened           \* history: the borrowers open_credit_line was called for

vars == <<admin, persistent, events, last, pre_persistent, opened>>

\* One invocation by `caller`.  No entry point of the source asks for the
\* caller's authorisation (there is no require_auth), so the caller is any
\* principal and the outcome `out` does not depend on it.
Call(caller, op, borrower, amount, credit_limit, interest_rate_bps, risk_score, out) ==
  /\ persistent' = out.persistent
  /\ events' = out.events
  /\ pre_persistent' = persistent
  /\ last' = [caller |-> caller, op |-> op, borrower |-> borrower, amount |-> amount,
              credit_limit |-> credit_limit, interest_rate_bps |-> interest_rate_bps,
              risk_score |-> risk_score, result |-> out.result, ret |-> out.ret]

\* The contract as the tests set it up: registered, init called, storage empty.
Init ==
  /\ admin \in {Some(a) : a \in Admins}
  /\ persistent = [k \in Keys |-> None]
  /\ events = <<>>
  /\ pre_persistent = [k \in Keys |-> None]
  /\ last = [caller |-> "admin", op |-> "init", borrower |-> "-", amount |-> 0, credit_limit |-> 0,
             interest_rate_bps |-> 0, risk_score |-> 0, result |-> "Ok", ret |-> None]
  /\ opened = {}

InitContract ==
  \E a \in Admins, c \in Admins \cup Borrowers :
    /\ admin' = Some(a)
    /\ Call(c, "init", "-", 0, 0, 0, 0, Commit(persistent, <<>>))
    /\ UNCHANGED opened

OpenCreditLine ==
  \E b \in Borrowers : \E c \in CallersOf(b), l \in LimitValues, rs \in RiskParams :
    /\ Call(c, "open", b, 0, l, rs[1], rs[2],
            open_credit_line(persistent, b, l, rs[1], rs[2]))
    /\ opened' = opened \cup {b}
    /\ UNCHANGED admin

DrawCredit ==
  \E b \in Borrowers : \E c \in CallersOf(b), a \in AmountValues :
    /\ Call(c, "draw", b, a, 0, 0, 0, draw_credit(persistent, b, a))
    /\ UNCHANGED <<admin, opened>>

RepayCredit ==
  \E b \in Borrowers : \E c \in CallersOf(b), a \in AmountValues :
    /\ Call(c, "repay", b, a, 0, 0, 0, repay_credit(persistent, b, a))
    /\ UNCHANGED <<admin, opened>>

UpdateRiskParameters ==
  \E b \in Borrowers : \E c \in CallersOf(b), l \in LimitValues, rs \in RiskParams :
    /\ Call(c, "update", b, 0, l, rs[1], rs[2],
            update_risk_parameters(persistent, b, l, rs[1], rs[2]))
    /\ UNCHANGED <<admin, opened>>

SuspendCreditLine ==
  \E b \in Borrowers : \E c \in CallersOf(b) :
    /\ Call(c, "suspend", b, 0, 0, 0, 0, suspend_credit_line(persistent, b))
    /\ UNCHANGED <<admin, opened>>

CloseCreditLine ==
  \E b \in Borrowers : \E c \in CallersOf(b) :
    /\ Call(c, "close", b, 0, 0, 0, 0, close_credit_line(persistent, b))
    /\ UNCHANGED <<admin, opened>>

DefaultCreditLine ==
  \E b \in Borrowers : \E c \in CallersOf(b) :
    /\ Call(c, "default", b, 0, 0, 0, 0, default_credit_line(persistent, b))
    /\ UNCHANGED <<admin, opened>>

GetCreditLine ==
  \E b \in Borrowers : \E c \in CallersOf(b) :
    /\ Call(c, "get", b, 0, 0, 0, 0,
            [Commit(persistent, <<>>) EXCEPT !.ret = get_credit_line(persistent, b)])
    /\ UNCHANGED <<admin, opened>>

Next ==
  \/ InitContract
  \/ OpenCreditLine
  \/ DrawCredit
  \/ RepayCredit
  \/ UpdateRiskParameters
  \/ SuspendCreditLine
  \/ CloseCreditLine
  \/ DefaultCreditLine
  \/ GetCreditLine

Spec == Init /\ [][Next]_vars

(***************************************************************************)
(* Vocabulary of the properties.                                           *)
(*                                                                         *)
(* The line of borrower b is the record open_credit_line wrote and         *)
(* get_credit_line returns.  LineBefore / LineAfter are that record as the *)
(* last invocation found it and left it.                                   *)
(***************************************************************************)
LineBefore(b) == get_credit_line(pre_persistent, b)
LineAfter(b) == get_credit_line(persistent, b)

\* a record of borrower b under either key
RecordsOf(p, b) == {p[k] : k \in {AddressKey(b), CreditLineKey(b)}} \ {None}

\* the last invocation was op, on borrower b, with a line in status st before it
LastOn(op, st) ==
  /\ last.op = op
  /\ last.borrower \in Borrowers
  /\ IsSome(LineBefore(last.borrower))
  /\ Unwrap(LineBefore(last.borrower)).status = st

\* the record invariant of the data model
WellFormed(line) ==
  0 <= line.utilized_amount /\ line.utilized_amount <= line.credit_limit

\* LastOn, for a line that satisfied the record invariant
LastOnSound(op, st) ==
  LastOn(op, st) /\ WellFormed(Unwrap(LineBefore(last.borrower)))

\* NotFound: the CreditError of draw/repay or the panic of the lifecycle calls
IsNotFound(result) == result \in {"CreditLineNotFound", PanicNotFound}

\* draw and repay never find a record: nothing is ever stored under their key
CreditLineKeyNeverWritten ==
  \A b \in Borrowers : persistent[CreditLineKey(b)] = None

\* hence no draw and no repay ever succeeds, none publishes an event, and the
\* utilized_amount get reports is the 0 open wrote
NoDrawOrRepaySucceeds ==
  /\ last.op \in {"draw", "repay"} =>
       (last.result \in {"InvalidAmount", "CreditLineNotFound"} /\ events = <<>>)
  /\ \A b \in Borrowers :
       IsSome(LineAfter(b)) => Unwrap(LineAfter(b)).utilized_amount = 0

(***************************************************************************)
(* C1: every persisted credit-line record satisfies                        *)
(* 0 <= utilized_amount <= credit_limit (hence credit_limit >= 0).         *)
(* Refuted by open_credit_line, which stores any credit_limit it is given. *)
(***************************************************************************)
C1_UtilizationWithinLimit ==
  \A k \in Keys :
    IsSome(persistent[k]) =>
      /\ 0 <= Unwrap(persistent[k]).utilized_amount
      /\ Unwrap(persistent[k]).utilized_amount <= Unwrap(persistent[k]).credit_limit

(***************************************************************************)
(* C3: on an Active line opened with limit L and utilization u, a draw of  *)
(* a with 0 < a <= L - u succeeds and persists utilized_amount = u + a.    *)
(* Refuted: draw_credit looks the line up under another key than           *)
(* open_credit_line stored it under.                                       *)
(***************************************************************************)
C3_DrawWithinLimitSucceeds ==
  (/\ LastOnSound("draw", "Active")
   /\ 0 < last.amount
   /\ last.amount <= Unwrap(LineBefore(last.borrower)).credit_limit
                       - Unwrap(LineBefore(last.borrower)).utilized_amount)
  => /\ last.result = "Ok"
     /\ IsSome(LineAfter(last.borrower))
     /\ Unwrap(LineAfter(last.borrower)).utilized_amount
          = Unwrap(LineBefore(last.borrower)).utilized_amount + last.amount

(***************************************************************************)
(* C4: on an existing Active line, a draw of more than                     *)
(* credit_limit - utilized_amount fails with LimitExceeded (code 4) and    *)
(* leaves the storage unchanged.  (Stated for a > 0 on a line within its   *)
(* limit, the case the claim is about.)                                    *)
(***************************************************************************)
C4_DrawOverLimitFails ==
  (/\ LastOnSound("draw", "Active")
   /\ last.amount > 0
   /\ last.amount > Unwrap(LineBefore(last.borrower)).credit_limit
                      - Unwrap(LineBefore(last.borrower)).utilized_amount)
  => /\ last.result = "InsufficientUtilization"
     /\ CreditError[last.result] = 4
     /\ persistent = pre_persistent

(***************************************************************************)
(* C5: a draw (of a positive amount) on a Suspended, Closed or Defaulted   *)
(* line is rejected with InvalidStatus; a repay on a Closed or Defaulted   *)
(* line is rejected with InvalidStatus; a repay on an Active or Suspended  *)
(* line is accepted.                                                       *)
(***************************************************************************)
C5_StatusGates ==
  /\ \A st \in {"Suspended", "Closed", "Defaulted"} :
       (LastOnSound("draw", st) /\ last.amount > 0) => last.result = "InvalidCreditStatus"
  /\ \A st \in {"Closed", "Defaulted"} :
       (LastOnSound("repay", st) /\ last.amount > 0) => last.result = "InvalidCreditStatus"
  /\ \A st \in {"Active", "Suspended"} :
       (LastOnSound("repay", st) /\ last.amount > 0) => last.result = "Ok"

(***************************************************************************)
(* C6: a draw of a > 0 that follows a successful suspend of the same       *)
(* borrower fails with InvalidStatus and a repay that follows it succeeds; *)
(* after a successful close or default both fail with InvalidStatus.       *)
(***************************************************************************)
C6_AfterLifecycleCall ==
  [][(/\ last.op \in {"suspend", "close", "default"}
      /\ last.result = "Ok"
      /\ WellFormed(Unwrap(LineAfter(last.borrower)))
      /\ last'.op \in {"draw", "repay"}
      /\ last'.borrower = last.borrower
      /\ last'.amount > 0)
     => last'.result = (IF last.op = "suspend" /\ last'.op = "repay"
                        THEN "Ok" ELSE "InvalidCreditStatus")]_vars

(***************************************************************************)
(* C7: on an existing Active or Suspended line with utilization u, a repay *)
(* of a > 0 succeeds and sets utilized_amount to u - min(a, u), never      *)
(* below 0.                                                                *)
(***************************************************************************)
C7_RepayCapsAtUtilization ==
  (/\ last.amount > 0
   /\ \E st \in {"Active", "Suspended"} : LastOnSound("repay", st))
  => LET u == Unwrap(LineBefore(last.borrower)).utilized_amount
         a == last.amount
     IN /\ last.result = "Ok"
        /\ IsSome(LineAfter(last.borrower))
        /\ Unwrap(LineAfter(last.borrower)).utilized_amount
             = u - (IF a < u THEN a ELSE u)
        /\ Unwrap(LineAfter(last.borrower)).utilized_amount >= 0

(***************************************************************************)
(* C9: for a borrower open was never called for, draw, repay, suspend,     *)
(* close, default and update_parameters fail with NotFound and create no   *)
(* record.  (draw and repay are taken with a > 0: a non-positive amount is *)
(* rejected as InvalidAmount before the record is looked up.)              *)
(***************************************************************************)
C9_NotFoundWithoutRecord ==
  (/\ last.op \in {"draw", "repay", "suspend", "close", "default", "update"}
   /\ last.op \in {"draw", "repay"} => last.amount > 0
   /\ last.borrower \notin opened)
  => /\ IsNotFound(last.result)
     /\ RecordsOf(persistent, last.borrower) = {}

(***************************************************************************)
(* C10: open(b, L, r, s) always succeeds, and get(b) then returns the      *)
(* record (b, L, 0, r, s, Active), whatever record b had before.           *)
(***************************************************************************)
C10_OpenWritesFreshLine ==
  last.op = "open" =>
    /\ last.result = "Ok"
    /\ get_credit_line(persistent, last.borrower)
         = Some([borrower |-> last.borrower,
                 credit_limit |-> last.credit_limit,
                 utilized_amount |-> 0,
                 interest_rate_bps |-> last.interest_rate_bps,
                 risk_score |-> last.risk_score,
                 status |-> "Active"])

\* C10's case: a re-open over a line that had another limit, rate, score and status
C10_Witness ==
  /\ LastOn("open", "Defaulted")
  /\ Unwrap(LineBefore(last.borrower)).credit_limit # last.credit_limit
  /\ Unwrap(LineBefore(last.borrower)).interest_rate_bps # last.interest_rate_bps
  /\ Unwrap(LineBefore(last.borrower)).risk_score # last.risk_score
  /\ last.result = "Ok"

(***************************************************************************)
(* C11: update_parameters(b, L, r, s) on an existing record overwrites     *)
(* credit_limit, interest_rate_bps and risk_score with L, r and s and      *)
(* leaves utilized_amount and status as they were, so that get(b) returns  *)
(* the new parameters.                                                     *)
(* Refuted: update_risk_parameters has no body.                            *)
(***************************************************************************)
C11_UpdateOverwritesParameters ==
  (/\ last.op = "update"
   /\ IsSome(LineBefore(last.borrower)))
  => /\ last.result = "Ok"
     /\ get_credit_line(persistent, last.borrower)
          = Some([Unwrap(LineBefore(last.borrower)) EXCEPT
                    !.credit_limit = last.credit_limit,
                    !.interest_rate_bps = last.interest_rate_bps,
                    !.risk_score = last.risk_score])

(***************************************************************************)
(* C12: suspend, close and default on an existing record succeed from any  *)
(* prior status, set status to Suspended, Closed and Defaulted, and leave  *)
(* borrower, credit_limit, utilized_amount, interest_rate_bps and          *)
(* risk_score unchanged.                                                   *)
(***************************************************************************)
StatusSetBy(op) ==
  CASE op = "suspend" -> "Suspended"
    [] op = "close" -> "Closed"
    [] op = "default" -> "Defaulted"

C12_LifecycleSetsOnlyStatus ==
  (/\ last.op \in {"suspend", "close", "default"}
   /\ IsSome(LineBefore(last.borrower)))
  => /\ last.result = "Ok"
     /\ LineAfter(last.borrower)
          = Some([Unwrap(LineBefore(last.borrower)) EXCEPT
                    !.status = StatusSetBy(last.op)])

\* C12's case: a lifecycle call on a line that was already in a terminal status
C12_Witness ==
  /\ LastOn("suspend", "Closed")
  /\ last.result = "Ok"
  /\ Unwrap(LineAfter(last.borrower)).status = "Suspended"
  /\ Unwrap(LineAfter(last.borrower)).credit_limit
       = Unwrap(LineBefore(last.borrower)).credit_limit

(***************************************************************************)
(* C13: an invocation that ends in an error leaves the whole storage as it *)
(* found it and publishes no event; writes and events occur only in        *)
(* invocations that validate fully.  (The source makes no value transfer   *)
(* in any invocation.)                                                     *)
(***************************************************************************)
C13_ErrorsLeaveNoTrace ==
  last.result # "Ok" => (persistent = pre_persistent /\ events = <<>>)

\* C13's case: a call that aborts with a CreditError on a store that holds the
\* records of both borrowers
C13_Witness ==
  /\ last.op = "draw"
  /\ last.result = "CreditLineNotFound"
  /\ IsSome(LineBefore(last.borrower))
  /\ \E b \in Borrowers : b # last.borrower /\ IsSome(LineBefore(b))

(***************************************************************************)
(* C14: for a borrower with an opened line, draw(b, a) and repay(b, a)     *)
(* with a <= 0 fail with InvalidAmount (error code 3) and change nothing.  *)
(***************************************************************************)
C14_NonPositiveAmountRejected ==
  (/\ last.op \in {"draw", "repay"}
   /\ last.borrower \in opened
   /\ last.amount <= 0)
  => /\ last.result = "InvalidAmount"
     /\ CreditError[last.result] = 3
     /\ persistent = pre_persistent
     /\ events = <<>>

\* C14's case: a repay of exactly 0 on an opened line
C14_Witness ==
  /\ last.op = "repay"
  /\ last.amount = 0
  /\ last.borrower \in opened
  /\ IsSome(LineBefore(last.borrower))
  /\ last.result = "InvalidAmount"

(***************************************************************************)
(* C15: status is monotone toward termination: no invocation takes a       *)
(* record from Closed or Defaulted back to Active or Suspended, and none   *)
(* takes a record from Suspended to Active.  (Stated for the invocations   *)
(* other than open, which starts a record afresh.)                         *)
(* Refuted: suspend has no check of the prior status.                      *)
(***************************************************************************)
C15_StatusMonotone ==
  \A b \in Borrowers :
    (last.op # "open" /\ IsSome(LineBefore(b)) /\ IsSome(LineAfter(b))) =>
      LET before == Unwrap(LineBefore(b)).status
          after == Unwrap(LineAfter(b)).status
      IN /\ before \in {"Closed", "Defaulted"} => after \notin {"Active", "Suspended"}
         /\ before = "Suspended" => after # "Active"

(***************************************************************************)
(* C16: there is one record per borrower and every operation reads and     *)
(* writes that same record: whenever get(b) reports a record, a draw or a  *)
(* repay on b (of a positive amount) finds a record too, and it is the one *)
(* get reports.                                                            *)
(* Refuted: draw and repay read another storage key than get.              *)
(***************************************************************************)
C16_OneRecordPerBorrower ==
  /\ \A b \in Borrowers : persistent[CreditLineKey(b)] = persistent[AddressKey(b)]
  /\ (/\ last.op \in {"draw", "repay"}
      /\ last.amount > 0
      /\ IsSome(LineBefore(last.borrower)))
     => last.result # "CreditLineNotFound"

(***************************************************************************)
(* C19: operations on different borrowers are independent: an invocation   *)
(* for borrower A leaves every record of any other borrower B unchanged,   *)
(* and its outcome (result, return value, events, A's records) is the one  *)
(* it has on a store from which the records of all other borrowers are     *)
(* removed.                                                                *)
(***************************************************************************)
\* the entry point named op applied to the storage p
Invoke(op, p, borrower, amount, credit_limit, interest_rate_bps, risk_score) ==
  CASE op = "open" ->
         open_credit_line(p, borrower, credit_limit, interest_rate_bps, risk_score)
    [] op = "draw" -> draw_credit(p, borrower, amount)
    [] op = "repay" -> repay_credit(p, borrower, amount)
    [] op = "update" ->
         update_risk_parameters(p, borrower, credit_limit, interest_rate_bps, risk_score)
    [] op = "suspend" -> suspend_credit_line(p, borrower)
    [] op = "close" -> close_credit_line(p, borrower)
    [] op = "default" -> default_credit_line(p, borrower)
    [] op = "get" -> [Commit(p, <<>>) EXCEPT !.ret = get_credit_line(p, borrower)]

\* the storage p without the records of the borrowers other than b
Only(p, b) == [k \in Keys |-> IF k[2] = b THEN p[k] ELSE None]

C19_BorrowersIndependent ==
  last.borrower \in Borrowers =>
    LET alone == Invoke(last.op, Only(pre_persistent, last.borrower), last.borrower,
                        last.amount, last.credit_limit, last.interest_rate_bps,
                        last.risk_score)
    IN /\ \A k \in Keys : k[2] # last.borrower => persistent[k] = pre_persistent[k]
       /\ alone.result = last.result
       /\ alone.ret = last.ret
       /\ alone.events = events
       /\ \A k \in Keys : k[2] = last.borrower => alone.persistent[k] = persistent[k]

\* C19's case: a call that changes A's record while B has a record of its own,
\* in another status and with other parameters
C19_Witness ==
  /\ LastOn("close", "Active")
  /\ last.result = "Ok"
  /\ \E b \in Borrowers :
       /\ b # last.borrower
       /\ IsSome(LineAfter(b))
       /\ Unwrap(LineAfter(b)).status = "Suspended"
       /\ Unwrap(LineAfter(b)).credit_limit
            # Unwrap(LineAfter(last.borrower)).credit_limit

(***************************************************************************)
(* C20: records are never deleted: once open(b, ...) has succeeded, get(b) *)
(* returns a record for b after every later sequence of operations,        *)
(* including after close and default.                                      *)
(***************************************************************************)
C20_RecordsNeverDeleted ==
  \A b \in opened : IsSome(get_credit_line(persistent, b))

\* C20's case: a line that was closed and then defaulted is still there
C20_Witness ==
  /\ LastOn("default", "Closed")
  /\ last.result = "Ok"
  /\ last.borrower \in opened
  /\ IsSome(LineAfter(last.borrower))

(***************************************************************************)
(* C17: every state-changing operation is gated on caller proof: draw and  *)
(* repay by a caller who is not the borrower, and open, suspend, default   *)
(* and update_parameters by a caller who is not the admin, fail with       *)
(* Unauthorized and change no record.                                      *)
(* Refuted: no entry point asks for any authorisation.                     *)
(***************************************************************************)
C17_CallerProofRequired ==
  (\/ last.op \in {"draw", "repay"} /\ last.caller # last.borrower
   \/ last.op \in {"open", "suspend", "default", "update"} /\ Some(last.caller) # admin)
  => /\ last.result = "Unauthorized"
     /\ persistent = pre_persistent

====
